---- MODULE Spec2Model ----
(***************************************************************************)
(* ConsultaSIA: the storage layer (DatabaseStorage) and the HTTP routes    *)
(* (registerRoutes) of the health-production server, as a state machine    *)
(* over the database tables.  One action is one HTTP request served from   *)
(* the middleware chain to the response; the state is the content of the   *)
(* tables and the last response sent.  The web client (useAuth, Router,    *)
(* LoginForm, the report generator) is modelled next to the server.        *)
(*                                                                         *)
(* Text columns are sequences of one-character strings, ids are the        *)
(* strings produced by gen_random_uuid() (here: the decimal of a counter), *)
(* an optional value is a set with at most one element, and a JSON object  *)
(* is a function whose DOMAIN is the set of keys that are present.         *)
(***************************************************************************)
EXTENDS Integers, Sequences, FiniteSets, TLC

VARIABLES users, refs, consultaProd, auditLog, clock, req, client, ui, procs,
          resp

vars ==
  <<users, refs, consultaProd, auditLog, clock, req, client, ui, procs, resp>>

db == <<users, refs, consultaProd, auditLog, clock>>

(***************************************************************************)
(* Bounds of the model.                                                    *)
(***************************************************************************)
MaxAudit == 2

MaxRows == 2

MaxTs == 2

MaxClauses == 2

MaxTotal == 300

(***************************************************************************)
(* Schema (shared/schema.ts).                                              *)
(***************************************************************************)
NULL == "NULL"

Entities == {"cbo", "prestador", "procedimento", "s_rub"}

FkColumn(e) ==
  CASE e = "cbo" -> "prdCbo"
    [] e = "prestador" -> "prdPrest"
    [] e = "procedimento" -> "prdProc"
    [] e = "s_rub" -> "prdRub"

NewId(c) == ToString(c + 1)

Min(a, b) == IF a < b THEN a ELSE b

Max(a, b) == IF a > b THEN a ELSE b

\* the .unique() constraint on codigo: an insert or update that would leave
\* two rows of one table with the same codigo raises
UniqueCodeOk_Unchecked(rows, row) == TRUE

UniqueCodeOk(rows, row) ==
  \A r \in rows : r.id # row.id => r.codigo # row.codigo

\* the .unique() constraint on users.username
UniqueUsernameOk(rows, row) ==
  \A r \in rows : r.id # row.id => r.username # row.username

\* the .references() constraints of consulta_prod: a non-null foreign key
\* names an existing row of the referenced table
ForeignKeysOk(tables, p) ==
  \A e \in Entities :
    p[FkColumn(e)] = NULL \/ \E r \in tables[e] : r.id = p[FkColumn(e)]

\* .references() without onDelete is ON DELETE NO ACTION: deleting a row
\* that a consulta_prod row still references raises
StillReferenced_Never(e, id) == FALSE

StillReferenced(e, id) ==
  \E p \in consultaProd : p[FkColumn(e)] = id

\* createInsertSchema(table).omit({id, createdAt, updatedAt}).parse(body):
\* the notNull columns without default are required, unknown keys are
\* stripped
RequiredColumns == {"codigo", "descricao"}

InsertSchemaOk(body) == RequiredColumns \subseteq DOMAIN body

\* insertUserSchema: username and password required; role and active have
\* column defaults
InsertUserSchemaOk(body) == {"username", "password"} \subseteq DOMAIN body

\* loginSchema: z.string().min(1) for both fields
LoginSchemaOk(body) ==
  /\ {"username", "password"} \subseteq DOMAIN body
  /\ body.username # ""
  /\ body.password # ""

(***************************************************************************)
(* bcrypt and jsonwebtoken.                                                *)
(***************************************************************************)
\* bcrypt.hash(password, 10)
BcryptHash(p) ==
  CASE p = "admin123" -> "$2b$10$Kq"
    [] p = "pw" -> "$2b$10$Zt"
    [] OTHER -> "$2b$10$Xx"

\* bcrypt.compare(password, hash)
BcryptCompare_NoCheck(p, h) == TRUE

BcryptCompare(p, h) == BcryptHash(p) = h

\* the payload signed by jwt.sign at login
Payload(u) == [id |-> u.id, username |-> u.username, role |-> u.role]

\* jwt.sign(payload, JWT_SECRET, {expiresIn: '24h'}); expired is decided when
\* the token is presented
JwtSign(payload) == [payload |-> payload, sig |-> "ok", expired |-> FALSE]

\* jwt.verify(token, JWT_SECRET): err for a bad signature or an expired token
JwtVerifyOk(t) == t.sig = "ok" /\ ~t.expired

\* the account made by the seed script
AdminUser ==
  [id |-> "1", username |-> "admin", password |-> BcryptHash("admin123"),
   role |-> "admin", active |-> TRUE]

\* the tokens a client can present and the server accepts: JWTs are
\* stateless, the server keeps no session, and no route changes or removes an
\* account, so the unexpired tokens issued by login are the signed payloads
\* of the active accounts
IssuedTokens == {JwtSign(Payload(u)) : u \in {a \in users : a.active}}

\* a token of the seeded administrator after its 24 hours
ExpiredTokens == {[JwtSign(Payload(AdminUser)) EXCEPT !.expired = TRUE]}

\* a token with a signature the server did not make
ForgedTokens ==
  {[payload |-> [id |-> "0", username |-> "admin", role |-> "admin"],
    sig |-> "bad", expired |-> FALSE]}

\* the Authorization header: absent, or a scheme word followed by the
\* credentials that split(' ')[1] picks (none when the header has one word)
Headers ==
  {[scheme |-> "", credentials |-> {}],
   [scheme |-> "Bearer", credentials |-> {}]}
  \cup {[scheme |-> "Bearer", credentials |-> {t}] :
          t \in IssuedTokens \cup ExpiredTokens \cup ForgedTokens}

\* authHeader && authHeader.split(' ')[1]
HeaderToken(h) == IF h.scheme = "" THEN {} ELSE h.credentials

\* authenticateToken: the status it answers with, 0 when it calls next()
AuthenticateToken(h) ==
  IF HeaderToken(h) = {} THEN 401
  ELSE IF \E t \in HeaderToken(h) : ~JwtVerifyOk(t) THEN 403
  ELSE 0

\* req.user after authenticateToken
ReqUser(h) == (CHOOSE t \in HeaderToken(h) : TRUE).payload

\* requireAdmin
RequireAdmin_Any(user) == TRUE

RequireAdmin(user) == user.role = "admin"

(***************************************************************************)
(* Responses.                                                              *)
(***************************************************************************)
\* what the client receives: the route that answered, the status and the body
Response(route, status, body) ==
  [route |-> route, status |-> status, body |-> body]

Message(m) == [message |-> m]

\* JSON.stringify(value) of an optional value: undefined stays undefined
JsonStringify(opt) == {[json |-> v] : v \in opt}

\* the object sent by res.json({...user, password: undefined}): a key whose
\* value is undefined is not serialised
ResponseUser(u) == [k \in DOMAIN u \ {"password"} |-> u[k]]

\* the user object of the login and /me responses
PublicUser(u) == [id |-> u.id, username |-> u.username, role |-> u.role]

(***************************************************************************)
(* DatabaseStorage.                                                        *)
(***************************************************************************)
\* getUserByUsername
getUserByUsername(username) == {u \in users : u.username = username}

\* getUser
getUser(id) == {u \in users : u.id = id}

\* getCBO, getPrestador, getProcedimento, getSRub
getRow(e, id) == {r \in refs[e] : r.id = id}

\* the row inserted by createCBO, createPrestador, createProcedimento,
\* createSRub: id and timestamps are generated by the database
NewRow(data) ==
  [id |-> NewId(clock), codigo |-> data.codigo, descricao |-> data.descricao,
   createdAt |-> clock + 1, updatedAt |-> clock + 1]

\* the row written by updateCBO, ...: .set({...data, updatedAt: new Date()})
UpdatedRow_Replace(row, data) ==
  [k \in DOMAIN row |->
     IF k = "updatedAt" THEN clock + 1
     ELSE IF k \in DOMAIN data THEN data[k]
     ELSE IF k \in {"codigo", "descricao"} THEN <<>> ELSE row[k]]

UpdatedRow(row, data) ==
  [k \in DOMAIN row |->
     IF k = "updatedAt" THEN clock + 1
     ELSE IF k \in DOMAIN data THEN data[k] ELSE row[k]]

\* the row inserted by createUser: the password is stored hashed
NewUser(data) ==
  [id |-> NewId(clock), username |-> data.username,
   password |-> BcryptHash(data.password),
   role |-> IF "role" \in DOMAIN data THEN data.role ELSE "operator",
   active |-> IF "active" \in DOMAIN data THEN data.active ELSE TRUE]

\* createAuditLog: db.insert(auditLog).values(...)
createAuditLog_Dropped(log, entry) == log

createAuditLog_Overwrite(log, entry) ==
  IF log = <<>> THEN <<entry>> ELSE [log EXCEPT ![Len(log)] = entry]

createAuditLog(log, entry) == Append(log, entry)

AuditEntry(userId, action, tableName, recordId, oldValues, newValues) ==
  [userId |-> userId, action |-> action, tableName |-> tableName,
   recordId |-> recordId, oldValues |-> JsonStringify(oldValues),
   newValues |-> JsonStringify(newValues)]

(***************************************************************************)
(* Query-string parsing and paging.                                        *)
(***************************************************************************)
Digits == <<"0", "1", "2", "3", "4", "5", "6", "7", "8", "9">>

IsDigit(c) == \E i \in 1..10 : Digits[i] = c

DigitValue(c) == (CHOOSE i \in 1..10 : Digits[i] = c) - 1

RECURSIVE DigitPrefixValue(_, _)
DigitPrefixValue(s, acc) ==
  IF s = <<>> \/ ~IsDigit(Head(s)) THEN acc
  ELSE DigitPrefixValue(Tail(s), acc * 10 + DigitValue(Head(s)))

\* parseInt(string): optional sign, then the longest prefix of digits; NaN
\* (no value) when there is no digit, also for an absent parameter
ParseInt(s) ==
  LET signed == s # <<>> /\ Head(s) \in {"-", "+"}
      digits == IF signed THEN Tail(s) ELSE s
      value  == DigitPrefixValue(digits, 0)
  IN  IF digits = <<>> \/ ~IsDigit(Head(digits)) THEN {}
      ELSE {IF Head(s) = "-" THEN 0 - value ELSE value}

\* parseInt(x) || d: NaN and 0 are falsy
OrDefault(opt, d) ==
  IF opt = {} \/ opt = {0} THEN d ELSE CHOOSE n \in opt : TRUE

\* the orders ORDER BY col DESC can return the rows of S in
OrderByDesc_Asc(S, col) ==
  {f \in [1..Cardinality(S) -> S] :
     /\ \A i, j \in 1..Cardinality(S) : i # j => f[i] # f[j]
     /\ \A i, j \in 1..Cardinality(S) : i < j => f[i][col] <= f[j][col]}

OrderByDesc(S, col) ==
  {f \in [1..Cardinality(S) -> S] :
     /\ \A i, j \in 1..Cardinality(S) : i # j => f[i] # f[j]
     /\ \A i, j \in 1..Cardinality(S) : i < j => f[i][col] >= f[j][col]}

\* .limit(limit).offset(offset) on an ordered result
LimitOffset_OffByOnePage(rows, limit, offset) ==
  SubSeq(rows, offset + limit + 1, Min(offset + 2 * limit, Len(rows)))

LimitOffset(rows, limit, offset) ==
  SubSeq(rows, offset + 1, Min(offset + limit, Len(rows)))

\* text LIKE pattern: % stands for any run of characters, _ for any one
\* character, every other character for itself
RECURSIVE LikeMatch(_, _)
LikeMatch(text, pattern) ==
  IF pattern = <<>> THEN text = <<>>
  ELSE IF Head(pattern) = "%"
  THEN \/ LikeMatch(text, Tail(pattern))
       \/ text # <<>> /\ LikeMatch(Tail(text), pattern)
  ELSE /\ text # <<>>
       /\ Head(pattern) = "_" \/ Head(pattern) = Head(text)
       /\ LikeMatch(Tail(text), Tail(pattern))

\* like(column, `%${search}%`): the search text is put between two % as it
\* is, so a % or _ in it is a wildcard too
Like(text, search) == LikeMatch(text, <<"%">> \o search \o <<"%">>)

\* the where condition of getCBOs, getPrestadores, getProcedimentos, getSRubs
ListWhere(row, search) ==
  search = <<>> \/ Like(row.codigo, search) \/ Like(row.descricao, search)

(***************************************************************************)
(* Inputs.                                                                 *)
(***************************************************************************)
CreateBodies ==
  {[codigo |-> <<"0", "0", "1">>, descricao |-> <<"d">>],
   [descricao |-> <<"d">>]}

UpdateBodies == {[codigo |-> <<"X">>], [descricao |-> <<"e">>]}

UserBodies ==
  {[username |-> "op", password |-> "pw"],
   [username |-> "op", password |-> "pw", active |-> FALSE],
   [username |-> "admin", password |-> "pw", role |-> "admin"],
   [username |-> "op"]}

LoginBodies ==
  [username : {"admin", "op"}, password : {"admin123", "pw"}]
  \cup {[username |-> "ghost", password |-> "pw"],
        [username |-> "", password |-> "pw"]}

\* the ids a request on a table can name: the ids of its rows, the ids of
\* rows it had (they are in the audit log) and an id that was never handed out
RequestIds(e) ==
  {r.id : r \in refs[e]}
  \cup {auditLog[i].recordId :
          i \in {j \in 1..Len(auditLog) : auditLog[j].tableName = e}}
  \cup {NewId(clock)}

(***************************************************************************)
(* Routes (registerRoutes).  Every route except login runs behind          *)
(* authenticateToken; a request it rejects never reaches the handler.      *)
(***************************************************************************)
\* the routes registered with authenticateToken; :entity stands for cbo,
\* prestador, procedimento and srub, whose routes are registered alike
ProtectedRoutes ==
  {"GET /api/auth/me", "GET /api/dashboard/stats", "GET /api/:entity",
   "GET /api/cbo/:id", "POST /api/:entity", "PUT /api/:entity/:id",
   "DELETE /api/:entity/:id", "GET /api/reports/data",
   "POST /api/reports/export", "GET /api/users", "POST /api/users"}

\* authenticateToken answers itself: 401 without a token, 403 when
\* jwt.verify reports an error
AuthRejected(r, h) ==
  /\ AuthenticateToken(h) # 0
  /\ resp' = Response(r, AuthenticateToken(h),
                      Message(IF AuthenticateToken(h) = 401
                              THEN "Access token required"
                              ELSE "Invalid token"))
  /\ UNCHANGED <<db, req, client, ui, procs>>

\* POST /api/auth/login
Login(body) ==
  /\ LET found == getUserByUsername(body.username)
         route == "POST /api/auth/login"
     IN  resp' =
           IF ~LoginSchemaOk(body)
           THEN Response(route, 400,
                         Message("Invalid request data"))
           ELSE IF found = {} \/ \E u \in found : ~u.active
           THEN Response(route, 401,
                         Message("Invalid credentials"))
           ELSE IF \E u \in found : ~BcryptCompare(body.password, u.password)
           THEN Response(route, 401,
                         Message("Invalid credentials"))
           ELSE LET u == CHOOSE x \in found : TRUE
                IN  Response(route, 200,
                             [token |-> JwtSign(Payload(u)),
                              user |-> PublicUser(u)])
  /\ UNCHANGED <<db, req, client, ui, procs>>

\* GET /api/auth/me
GetMe(h) ==
  /\ AuthenticateToken(h) = 0
  /\ LET found == getUser(ReqUser(h).id)
         route == "GET /api/auth/me"
     IN  resp' =
           IF found = {}
           THEN Response(route, 404,
                         Message("User not found"))
           ELSE Response(route, 200,
                         PublicUser(CHOOSE x \in found : TRUE))
  /\ UNCHANGED <<db, req, client, ui, procs>>

\* GET /api/dashboard/stats (the value and status columns are outside the
\* model, so only the row count of getDashboardStats is kept)
GetDashboardStats(h) ==
  /\ AuthenticateToken(h) = 0
  /\ resp' = Response("GET /api/dashboard/stats", 200,
                      [totalProcedures |-> Cardinality(consultaProd)])
  /\ UNCHANGED <<db, req, client, ui, procs>>

\* parseInt(req.query.page as string) || 1 and
\* parseInt(req.query.limit as string) || d: the numbers handed to storage
StorageArgs(q, d) ==
  [page |-> OrDefault(ParseInt(q.page), 1),
   limit |-> OrDefault(ParseInt(q.limit), d)]

\* .limit(limit).offset(offset): the database refuses the query when either
\* number is negative (LIMIT must not be negative, OFFSET must not be
\* negative) and the storage call throws
PagingRaises(limit, offset) == limit < 0 \/ offset < 0

\* getCBOs, getPrestadores, getProcedimentos, getSRubs: the page and the
\* total of the rows matching the search
getRows(e, page, limit, search) ==
  LET matching == {r \in refs[e] : ListWhere(r, search)}
      ordered  == CHOOSE f \in OrderByDesc(matching, "createdAt") : TRUE
  IN  [data |-> LimitOffset(ordered, limit, (page - 1) * limit),
       total |-> Cardinality(matching)]

\* GET /api/cbo, /api/prestador, /api/procedimento, /api/srub
GetList(e, h, q) ==
  /\ AuthenticateToken(h) = 0
  /\ LET page  == StorageArgs(q, 10).page
         limit == StorageArgs(q, 10).limit
     IN  resp' = IF PagingRaises(limit, (page - 1) * limit)
                 THEN Response("GET /api/:entity", 500,
                               Message("Internal server error"))
                 ELSE Response("GET /api/:entity", 200,
                               getRows(e, page, limit, q.search))
  /\ UNCHANGED <<db, req, client, ui, procs>>

\* GET /api/cbo/:id
GetCbo(h, id) ==
  /\ AuthenticateToken(h) = 0
  /\ resp' =
       IF getRow("cbo", id) = {}
       THEN Response("GET /api/cbo/:id", 404,
                     Message("CBO not found"))
       ELSE Response("GET /api/cbo/:id", 200,
                     CHOOSE r \in getRow("cbo", id) : TRUE)
  /\ UNCHANGED <<db, req, client, ui, procs>>

\* POST /api/cbo, /api/prestador, /api/procedimento, /api/srub
PostEntity(e, h, body) ==
  /\ AuthenticateToken(h) = 0
  /\ LET route == "POST /api/:entity"
     IN  \/ /\ ~InsertSchemaOk(body)
            /\ resp' = Response(route, 400,
                                Message("Invalid request data"))
            /\ UNCHANGED <<db, req, client, ui, procs>>
         \/ /\ InsertSchemaOk(body)
            /\ ~UniqueCodeOk(refs[e], NewRow(body))
            /\ resp' = Response(route, 400,
                                Message("Invalid request data"))
            /\ UNCHANGED <<db, req, client, ui, procs>>
         \/ /\ InsertSchemaOk(body)
            /\ UniqueCodeOk(refs[e], NewRow(body))
            /\ Len(auditLog) < MaxAudit
            /\ refs' = [refs EXCEPT ![e] = @ \cup {NewRow(body)}]
            /\ auditLog' = createAuditLog(auditLog,
                 AuditEntry(ReqUser(h).id, "create", e, NewRow(body).id,
                            {}, {NewRow(body)}))
            /\ clock' = clock + 1
            /\ resp' = Response(route, 201, NewRow(body))
            /\ UNCHANGED <<users, consultaProd, req, client, ui, procs>>

\* PUT /api/cbo/:id, /api/prestador/:id, /api/procedimento/:id, /api/srub/:id
PutEntity(e, h, id, body) ==
  /\ AuthenticateToken(h) = 0
  /\ LET route == "PUT /api/:entity/:id"
         old   == getRow(e, id)
     IN  \/ /\ old = {}
            /\ resp' = Response(route, 404,
                                Message("not found"))
            /\ UNCHANGED <<db, req, client, ui, procs>>
         \/ /\ old # {}
            /\ \E r \in old : ~UniqueCodeOk(refs[e], UpdatedRow(r, body))
            /\ resp' = Response(route, 400,
                                Message("Invalid request data"))
            /\ UNCHANGED <<db, req, client, ui, procs>>
         \/ /\ old # {}
            /\ Len(auditLog) < MaxAudit
            /\ \E r \in old :
                 /\ UniqueCodeOk(refs[e], UpdatedRow(r, body))
                 /\ refs' = [refs EXCEPT
                               ![e] = (@ \ {r}) \cup {UpdatedRow(r, body)}]
                 /\ auditLog' = createAuditLog(auditLog,
                      AuditEntry(ReqUser(h).id, "update", e, r.id,
                                 old, {UpdatedRow(r, body)}))
                 /\ resp' = Response(route, 200,
                                     UpdatedRow(r, body))
            /\ clock' = clock + 1
            /\ UNCHANGED <<users, consultaProd, req, client, ui, procs>>

\* DELETE /api/cbo/:id, /api/prestador/:id, /api/procedimento/:id,
\* /api/srub/:id
DeleteEntity(e, h, id) ==
  /\ AuthenticateToken(h) = 0
  /\ LET route == "DELETE /api/:entity/:id"
         old   == getRow(e, id)
     IN  \/ /\ old = {}
            /\ resp' = Response(route, 404,
                                Message("not found"))
            /\ UNCHANGED <<db, req, client, ui, procs>>
         \/ /\ old # {}
            /\ StillReferenced(e, id)
            /\ resp' = Response(route, 500,
                                Message("Internal server error"))
            /\ UNCHANGED <<db, req, client, ui, procs>>
         \/ /\ old # {}
            /\ ~StillReferenced(e, id)
            /\ Len(auditLog) < MaxAudit
            /\ refs' = [refs EXCEPT ![e] = @ \ old]
            /\ auditLog' = createAuditLog(auditLog,
                 AuditEntry(ReqUser(h).id, "delete", e, id, old, {}))
            /\ resp' = Response(route, 204, Message(""))
            /\ UNCHANGED <<users, consultaProd, clock, req, client, ui, procs>>

\* GET /api/users
GetUsers(h) ==
  /\ AuthenticateToken(h) = 0
  /\ resp' =
       IF ~RequireAdmin(ReqUser(h))
       THEN Response("GET /api/users", 403,
                     Message("Admin access required"))
       ELSE Response("GET /api/users", 200,
                     Message("User management endpoint - to be implemented"))
  /\ UNCHANGED <<db, req, client, ui, procs>>

\* POST /api/users
PostUsers(h, body) ==
  /\ AuthenticateToken(h) = 0
  /\ LET route == "POST /api/users"
     IN  \/ /\ ~RequireAdmin(ReqUser(h))
            /\ resp' = Response(route, 403,
                                Message("Admin access required"))
            /\ UNCHANGED <<db, req, client, ui, procs>>
         \/ /\ RequireAdmin(ReqUser(h))
            /\ \/ ~InsertUserSchemaOk(body)
               \/ /\ InsertUserSchemaOk(body)
                  /\ ~UniqueUsernameOk(users, NewUser(body))
            /\ resp' = Response(route, 400,
                                Message("Invalid request data"))
            /\ UNCHANGED <<db, req, client, ui, procs>>
         \/ /\ RequireAdmin(ReqUser(h))
            /\ InsertUserSchemaOk(body)
            /\ UniqueUsernameOk(users, NewUser(body))
            /\ Len(auditLog) < MaxAudit
            /\ users' = users \cup {NewUser(body)}
            /\ auditLog' = createAuditLog(auditLog,
                 AuditEntry(ReqUser(h).id, "create", "users",
                            NewUser(body).id, {},
                            {[NewUser(body) EXCEPT !.password = "[HIDDEN]"]}))
            /\ clock' = clock + 1
            /\ resp' = Response(route, 201,
                                ResponseUser(NewUser(body)))
            /\ UNCHANGED <<refs, consultaProd, req, client, ui, procs>>

(***************************************************************************)
(* The report query (getConsultaProdData) and its routes.                  *)
(***************************************************************************)
\* timestamps count half days from 2024-01-01T00:00Z
HalfDaysPerDay == 2

Timestamps == 0..MaxTs

\* new Date(string): the instant of a date string, Invalid Date (no value)
\* for a string that is not a date
NewDate(s) ==
  CASE s = "2024-01-01" -> {0}
    [] s = "2024-01-02" -> {HalfDaysPerDay}
    [] OTHER -> {}

\* if (filters.key): the key is present and its value is not falsy
Truthy(f, k) == k \in DOMAIN f /\ f[k] # ""

Condition(op, col, value) == [op |-> op, col |-> col, value |-> value]

\* the whereConditions array built from the filters argument
WhereConditions_Strict(filters) ==
  IF filters = {} THEN <<>>
  ELSE LET f == CHOOSE x \in filters : TRUE
       IN  (IF Truthy(f, "dateFrom")
            THEN <<Condition("gt", "prdDtcomp", NewDate(f.dateFrom))>>
            ELSE <<>>)
           \o (IF Truthy(f, "dateTo")
               THEN <<Condition("lte", "prdDtcomp", NewDate(f.dateTo))>>
               ELSE <<>>)
           \o (IF Truthy(f, "prestador")
               THEN <<Condition("eq", "prdPrest", {f.prestador})>>
               ELSE <<>>)
           \o (IF Truthy(f, "procedimento")
               THEN <<Condition("eq", "prdProc", {f.procedimento})>>
               ELSE <<>>)

WhereConditions(filters) ==
  IF filters = {} THEN <<>>
  ELSE LET f == CHOOSE x \in filters : TRUE
       IN  (IF Truthy(f, "dateFrom")
            THEN <<Condition("gte", "prdDtcomp", NewDate(f.dateFrom))>>
            ELSE <<>>)
           \o (IF Truthy(f, "dateTo")
               THEN <<Condition("lte", "prdDtcomp", NewDate(f.dateTo))>>
               ELSE <<>>)
           \o (IF Truthy(f, "prestador")
               THEN <<Condition("eq", "prdPrest", {f.prestador})>>
               ELSE <<>>)
           \o (IF Truthy(f, "procedimento")
               THEN <<Condition("eq", "prdProc", {f.procedimento})>>
               ELSE <<>>)

\* gte, lte, eq of drizzle-orm on one row
ConditionHolds(c, row) ==
  \E v \in c.value :
    CASE c.op = "gte" -> row[c.col] >= v
      [] c.op = "gt" -> row[c.col] > v
      [] c.op = "lte" -> row[c.col] <= v
      [] c.op = "eq" -> row[c.col] = v

\* whereConditions.length > 0 ? and(...whereConditions) : undefined, and
\* .where(undefined) keeps every row
WhereHolds_NoneWhenEmpty(conds, row) ==
  /\ conds # <<>>
  /\ \A i \in 1..Len(conds) : ConditionHolds(conds[i], row)

WhereHolds_Or(conds, row) ==
  conds = <<>> \/ \E i \in 1..Len(conds) : ConditionHolds(conds[i], row)

WhereHolds(conds, row) ==
  conds = <<>> \/ \A i \in 1..Len(conds) : ConditionHolds(conds[i], row)

\* an Invalid Date bound to the query makes the driver raise
QueryRaises(conds) == \E i \in 1..Len(conds) : conds[i].value = {}

\* the nested object of a left join: null when no row is joined
LeftJoin_NoCondition(e, fk) ==
  {[id |-> r.id, codigo |-> r.codigo, descricao |-> r.descricao] :
     r \in refs[e]}

LeftJoin(e, fk) ==
  {[id |-> r.id, codigo |-> r.codigo, descricao |-> r.descricao] :
     r \in {x \in refs[e] : x.id = fk}}

\* one row of the select of getConsultaProdData
JoinedRow(p) ==
  [id |-> p.id, prdDtcomp |-> p.prdDtcomp,
   cbo |-> LeftJoin("cbo", p.prdCbo),
   prestador |-> LeftJoin("prestador", p.prdPrest),
   procedimento |-> LeftJoin("procedimento", p.prdProc),
   sRub |-> LeftJoin("s_rub", p.prdRub)]

\* the rows of consulta_prod the where condition keeps
Matching(filters) ==
  {p \in consultaProd : WhereHolds(WhereConditions(filters), p)}

\* getConsultaProdData for one of the orders the database can return
getConsultaProdData(filters, page, limit, ordered) ==
  LET rows == LimitOffset(ordered, limit, (page - 1) * limit)
  IN  [data |-> [i \in 1..Len(rows) |-> JoinedRow(rows[i])],
       total |-> Cardinality(Matching(filters))]

\* req.query.filters ? JSON.parse(req.query.filters) : {}
QueryFilters(param) == IF param = {} THEN {<<>>} ELSE param

\* GET /api/reports/data
GetReportsData(h, q) ==
  /\ AuthenticateToken(h) = 0
  /\ LET page    == StorageArgs(q, 50).page
         limit   == StorageArgs(q, 50).limit
         filters == QueryFilters(q.filters)
         route   == "GET /api/reports/data"
         raises  == \/ QueryRaises(WhereConditions(filters))
                    \/ PagingRaises(limit, (page - 1) * limit)
     IN  \/ /\ raises
            /\ resp' = Response(route, 500,
                                Message("Internal server error"))
         \/ /\ ~raises
            /\ \E ordered \in OrderByDesc(Matching(filters), "prdDtcomp") :
                 resp' = Response(route, 200,
                           getConsultaProdData(filters, page, limit, ordered))
  /\ UNCHANGED <<db, req, client, ui, procs>>

ExportLimit == 10000

ExportSample == 100

\* POST /api/reports/export
PostReportsExport(h, body) ==
  /\ AuthenticateToken(h) = 0
  /\ LET route == "POST /api/reports/export"
     IN  \/ /\ QueryRaises(WhereConditions(body.filters))
            /\ resp' = Response(route, 500,
                                Message("Internal server error"))
            /\ UNCHANGED <<db, req, client, ui, procs>>
         \/ /\ ~QueryRaises(WhereConditions(body.filters))
            /\ Len(auditLog) < MaxAudit
            /\ \E ordered \in
                   OrderByDesc(Matching(body.filters), "prdDtcomp") :
                 LET result == getConsultaProdData(body.filters, 1,
                                                   ExportLimit, ordered)
                 IN  /\ auditLog' = createAuditLog(auditLog,
                          AuditEntry(ReqUser(h).id, "export", "consulta_prod",
                            NULL, {},
                            {[format |-> body.format,
                              filters |-> body.filters,
                              recordCount |-> result.total]}))
                     /\ resp' = Response(route, 200,
                          [success |-> TRUE,
                           data |-> SubSeq(result.data, 1,
                                      Min(ExportSample, Len(result.data)))])
            /\ UNCHANGED <<users, refs, consultaProd, clock, req, client, ui, procs>>

(***************************************************************************)
(* The API as a state machine.                                             *)
(***************************************************************************)
NoHeader == [scheme |-> "", credentials |-> {}]

NoResponse == Response("-", 0, Message(""))

NoRequest == [header |-> NoHeader, query |-> {}]

\* the state of the web client after a page load: the token and the user
\* kept in localStorage, the data of the /api/auth/me query (the cache is
\* empty after a load), whether that query is in flight (it is enabled only
\* with a token) and the error of the page's list query
Reload(token, storedUser) ==
  [token |-> token, storedUser |-> storedUser, user |-> {},
   fetching |-> token # {}, pageError |-> {}]

\* no browser: nothing stored
NoClient == Reload({}, {})

\* RelatoriosPage as it mounts: page 1, no filters, the report generator
\* hidden (generator holds the clause list of a mounted ReportGenerator)
NoUi ==
  [page |-> 1, limit |-> 50, total |-> 0, filters |-> <<>>,
   showReportGenerator |-> FALSE, generator |-> {}]

\* no handler is between two of its awaits
NoProcs == <<>>

ListQueries ==
  {[page |-> <<"2">>, limit |-> <<"1">>, search |-> <<>>],
   [page |-> <<>>, limit |-> <<>>, search |-> <<"0">>]}

DataQueries ==
  {[page |-> <<>>, limit |-> <<>>, filters |-> {}],
   [page |-> <<"1">>, limit |-> <<"1">>,
    filters |-> {[dateFrom |-> "2024-01-01"]}]}

ExportBodies ==
  {[format |-> "csv", filters |-> {}],
   [format |-> "pdf", filters |-> {[dateTo |-> "31/12/2024"]}]}

\* one provider and one procedure inserted by the seed through the storage
\* layer, which writes no audit entry
SeedRefs ==
  [e \in Entities |->
     CASE e = "prestador" ->
            {[id |-> "2", codigo |-> <<"0", "0", "1">>, descricao |-> <<"d">>,
              createdAt |-> 2, updatedAt |-> 2]}
       [] e = "procedimento" ->
            {[id |-> "3", codigo |-> <<"X">>, descricao |-> <<"d">>,
              createdAt |-> 3, updatedAt |-> 3]}
       [] OTHER -> {}]

\* the production rows come from the import, not from a route: none, or one
\* row of two units performed by the seeded provider
SeedProd ==
  {{},
   {[id |-> "4", prdDtcomp |-> 0, prdCbo |-> NULL, prdPrest |-> "2",
     prdProc |-> "3", prdRub |-> NULL]}}

SeedClock == 4

Init ==
  /\ users = {AdminUser}
  /\ refs = SeedRefs
  /\ consultaProd \in {t \in SeedProd : \A p \in t : ForeignKeysOk(refs, p)}
  /\ auditLog = <<>>
  /\ clock = SeedClock
  /\ req = NoRequest
  /\ client = NoClient
  /\ ui = NoUi
  /\ procs = NoProcs
  /\ resp = NoResponse

Next ==
  \/ \E r \in ProtectedRoutes, h \in Headers : AuthRejected(r, h)
  \/ \E body \in LoginBodies : Login(body)
  \/ \E h \in Headers : GetMe(h)
  \/ \E h \in Headers : GetDashboardStats(h)
  \/ \E e \in Entities, h \in Headers, q \in ListQueries : GetList(e, h, q)
  \/ \E h \in Headers, id \in RequestIds("cbo") : GetCbo(h, id)
  \/ \E e \in Entities, h \in Headers, body \in CreateBodies :
       PostEntity(e, h, body)
  \/ \E e \in Entities, h \in Headers, body \in UpdateBodies :
       \E id \in RequestIds(e) : PutEntity(e, h, id, body)
  \/ \E e \in Entities, h \in Headers :
       \E id \in RequestIds(e) : DeleteEntity(e, h, id)
  \/ \E h \in Headers : GetUsers(h)
  \/ \E h \in Headers, body \in UserBodies : PostUsers(h, body)
  \/ \E h \in Headers, q \in DataQueries : GetReportsData(h, q)
  \/ \E h \in Headers, body \in ExportBodies : PostReportsExport(h, body)

Spec == Init /\ [][Next]_vars

(***************************************************************************)
(* The report query on its own: a seeded database with up to MaxRows       *)
(* production rows and one request for GET /api/reports/data, which is     *)
(* served (and can be served again: the rows of equal competence date can  *)
(* come back in another order).                                            *)
(***************************************************************************)
NumShapes == (MaxTs + 1) * 4

\* the production row with the i-th id and the k-th combination of
\* competence date, provider key and procedure key
ReportRow(i, k) ==
  [id |-> ToString(SeedClock - 1 + i),
   prdDtcomp |-> k % (MaxTs + 1),
   prdCbo |-> NULL,
   prdPrest |-> IF (k \div (MaxTs + 1)) % 2 = 1 THEN "2" ELSE NULL,
   prdProc |-> IF k \div (2 * (MaxTs + 1)) = 1 THEN "3" ELSE NULL,
   prdRub |-> NULL]

\* every table of at most MaxRows rows, up to the naming of the rows
ReportTables ==
  UNION {{{ReportRow(i, f[i]) : i \in 1..n} :
            f \in {g \in [1..n -> 0..(NumShapes - 1)] :
                     \A i \in 1..n : i < n => g[i] <= g[i + 1]}} :
         n \in 0..MaxRows}

\* the value of a clause (ReportFilter.value: string | string[]): the text of
\* the single input, or the pair of texts of the two 'between' inputs
StringValue(s) == [array |-> FALSE, items |-> <<s>>]

ArrayValue(low, high) == [array |-> TRUE, items |-> <<low, high>>]

\* !!value: the empty string is falsy, every other string and every array
\* (also ["", ""]) is truthy
ValueTruthy(v) == v.array \/ v.items[1] # ""

\* the clause lists composed in the report generator: field, operator, value
\* and, from the second clause on, the AND/OR connector
ClientFilterLists ==
  {<<[field |-> "prdPrest", operator |-> "equals",
      value |-> StringValue("2")]>>,
   <<[field |-> "prdPrest", operator |-> "equals",
      value |-> StringValue("2")],
     [field |-> "prdProc", operator |-> "equals", value |-> StringValue("3"),
      logicalOperator |-> "OR"]>>,
   <<[field |-> "prdProc", operator |-> "equals",
      value |-> StringValue("")]>>}

\* the clauses buildFilterObject keeps: filter.field && filter.value
Complete(filterList) ==
  {i \in 1..Len(filterList) :
     filterList[i].field # "" /\ ValueTruthy(filterList[i].value)}

\* ReportGenerator.buildFilterObject: one key filter_<index> per complete
\* clause
buildFilterObject(filterList) ==
  [k \in {"filter_" \o ToString(i - 1) : i \in Complete(filterList)} |->
     filterList[CHOOSE i \in Complete(filterList) :
                  k = "filter_" \o ToString(i - 1)]]

\* the filters parameter RelatoriosPage puts in the query string:
\* JSON.stringify(filters) when the object has a key, else no parameter
ClientFiltersParam(filterList) ==
  IF DOMAIN buildFilterObject(filterList) = {} THEN {}
  ELSE {buildFilterObject(filterList)}

ReportFilters ==
  {f \in UNION {[K -> {"", "2024-01-01", "2024-01-02", "31/12/2024", "2",
                       "3"}] :
                  K \in SUBSET {"dateFrom", "dateTo", "prestador",
                                "procedimento"}} :
     /\ "dateFrom" \in DOMAIN f =>
          f.dateFrom \in {"", "2024-01-01", "2024-01-02", "31/12/2024"}
     /\ "dateTo" \in DOMAIN f => f.dateTo \in {"2024-01-01", "2024-01-02"}
     /\ "prestador" \in DOMAIN f => f.prestador = "2"
     /\ "procedimento" \in DOMAIN f => f.procedimento = "3"}
  \cup UNION {ClientFiltersParam(l) : l \in ClientFilterLists}
  \cup {[dateFrom |-> "2024-01-02", logic |-> "OR"],
        [dateFrom |-> "2024-01-02", prestador |-> "2", logic |-> "OR"]}

ReportQueries ==
  [page : {<<>>, <<"2">>, <<"3">>}, limit : {<<>>, <<"1">>, <<"2">>},
   filters : {{}} \cup {{f} : f \in ReportFilters}]

ReportRequests ==
  {[header |-> h, query |-> {q}] :
     h \in {x \in Headers : AuthenticateToken(x) = 0}, q \in ReportQueries}
  \cup {[header |-> h, query |-> {[page |-> <<>>, limit |-> <<>>,
                                   filters |-> {}]}] :
          h \in {x \in Headers : AuthenticateToken(x) # 0}}

InitReport ==
  /\ users = {AdminUser}
  /\ refs = SeedRefs
  /\ consultaProd \in ReportTables
  /\ auditLog = <<>>
  /\ clock = SeedClock - 1 + Cardinality(consultaProd)
  /\ req \in ReportRequests
  /\ client = NoClient
  /\ ui = NoUi
  /\ procs = NoProcs
  /\ resp = NoResponse

NextReport ==
  \/ AuthRejected("GET /api/reports/data", req.header)
  \/ \E q \in req.query : GetReportsData(req.header, q)

SpecReport == InitReport /\ [][NextReport]_vars

(***************************************************************************)
(* Properties of the report query, checked under SpecReport.               *)
(***************************************************************************)
\* the request of SpecReport was answered with a page
Served == resp.route = "GET /api/reports/data" /\ resp.status = 200

ServedQuery == CHOOSE q \in req.query : TRUE

ServedPage == OrDefault(ParseInt(ServedQuery.page), 1)

ServedLimit == OrDefault(ParseInt(ServedQuery.limit), 50)

RecognizedKeys == {"dateFrom", "dateTo", "prestador", "procedimento"}

\* the filter object of the request has none of the four recognized keys
NoRecognizedKey ==
  \A f \in ServedQuery.filters : DOMAIN f \cap RecognizedKeys = {}

\* the instant a date key of the request bounds the competence date with
\* (no instant when the key is absent or empty)
Bound(k) ==
  UNION {NewDate(f[k]) : f \in {x \in ServedQuery.filters : Truthy(x, k)}}

\* C1: a filter that contains none of the keys dateFrom, dateTo, prestador,
\* procedimento (the empty object and an absent filter included) matches all
\* rows: the total returned equals the number of rows of consulta_prod
C1_MatchAll ==
  (Served /\ NoRecognizedKey) => resp.body.total = Cardinality(consultaProd)

C1_Witness ==
  /\ Served
  /\ NoRecognizedKey
  /\ ServedQuery.filters # {}
  /\ Cardinality(consultaProd) = 2
  /\ resp.body.total = 2

\* C2: every row of the returned page has a competence date d with
\* dateFrom <= d <= dateTo, both bounds inclusive, and when only the date
\* keys are given the total counts every row within the bounds, the rows
\* dated exactly dateFrom included
C2_DateRange ==
  Served =>
    /\ \A i \in 1..Len(resp.body.data) :
         /\ \A from \in Bound("dateFrom") : from <= resp.body.data[i].prdDtcomp
         /\ \A to \in Bound("dateTo") : resp.body.data[i].prdDtcomp <= to
    /\ (\A f \in ServedQuery.filters :
          ~Truthy(f, "prestador") /\ ~Truthy(f, "procedimento"))
       => resp.body.total =
            Cardinality({p \in consultaProd :
                           /\ \A from \in Bound("dateFrom") :
                                from <= p.prdDtcomp
                           /\ \A to \in Bound("dateTo") :
                                p.prdDtcomp <= to})

C2_Witness ==
  /\ Served
  /\ Bound("dateFrom") = {HalfDaysPerDay}
  /\ Len(resp.body.data) >= 1
  /\ resp.body.data[1].prdDtcomp = HalfDaysPerDay
  /\ \E p \in consultaProd : p.prdDtcomp < HalfDaysPerDay

\* C3: for N matching rows the page holds the rows at the positions
\* (page-1)*limit+1 .. page*limit of the match list in descending order of
\* competence date, that is min(limit, max(0, N-(page-1)*limit)) rows, and
\* total is N on every page, also on a page after the last row
C3_Pagination ==
  Served =>
    LET N      == Cardinality(Matching(ServedQuery.filters))
        offset == (ServedPage - 1) * ServedLimit
        data   == resp.body.data
    IN  /\ resp.body.total = N
        /\ Len(data) = Min(ServedLimit, Max(0, N - offset))
        /\ \E ordered \in
               OrderByDesc(Matching(ServedQuery.filters), "prdDtcomp") :
             \A i \in 1..Len(data) : data[i].id = ordered[offset + i].id

C3_Witness ==
  /\ Served
  /\ ServedPage = 2
  /\ ServedLimit = 1
  /\ resp.body.total = 2
  /\ Len(resp.body.data) = 1

(***************************************************************************)
(* Properties of the API, checked under Spec.                              *)
(***************************************************************************)
ValidHeaders == {h \in Headers : AuthenticateToken(h) = 0}

LastAudit == auditLog[Len(auditLog)]

\* no two rows of a reference table have the same code
UniqueCodes ==
  \A e \in Entities : \A r1, r2 \in refs[e] :
    r1.codigo = r2.codigo => r1 = r2

\* a create request with a complete body: refused with 400 and nothing
\* inserted when the code is taken, else answered 201 with the new row, which
\* the first page of the list then shows
CreateStep ==
  resp'.route = "POST /api/:entity" =>
  \A e \in Entities, h \in ValidHeaders, body \in CreateBodies :
    (InsertSchemaOk(body) /\ PostEntity(e, h, body)) =>
      IF \E r \in refs[e] : r.codigo = body.codigo
      THEN resp'.status \in {400, 409} /\ refs' = refs
      ELSE /\ resp'.status = 201
           /\ resp'.body.codigo = body.codigo
           /\ resp'.body \in refs'[e]
           /\ refs'[e] = refs[e] \cup {resp'.body}
           /\ LET list == getRows(e, 1, 10, <<>>)'
              IN  \E i \in 1..Len(list.data) : list.data[i] = resp'.body

\* C4: after any sequence of create, update and delete no two rows of a
\* reference table have the same code; a create with a code that exists is
\* refused as a conflict and inserts nothing, a create with a new code
\* succeeds and the row is in the next list
C4_UniqueCode == []UniqueCodes /\ [][CreateStep]_vars

C4_Witness ==
  /\ resp.route = "POST /api/:entity"
  /\ resp.status = 201
  /\ \E e \in Entities :
       Cardinality(refs[e]) = 2 /\ resp.body \in refs[e]

\* C5: deleting a provider id that exists answers success and removes the
\* row, deleting an id that does not exist (again) answers not found and
\* changes nothing, and no delete ends in a 500
C5_IdempotentDelete ==
  [][resp'.route = "DELETE /api/:entity/:id" =>
     \A h \in ValidHeaders, id \in RequestIds("prestador") :
       DeleteEntity("prestador", h, id) =>
         IF \E r \in refs["prestador"] : r.id = id
         THEN /\ resp'.status = 204
              /\ ~\E r \in refs'["prestador"] : r.id = id
         ELSE resp'.status = 404 /\ refs' = refs]_vars

\* C6: POST /api/users by a principal who is not an administrator answers
\* 403 and creates no account and no audit entry; by an administrator with a
\* complete body and a free username it answers 201 and the account exists;
\* no answer of the route carries a password
C6_AdminOnly ==
  [][resp'.route = "POST /api/users" =>
     \A h \in ValidHeaders, body \in UserBodies :
       PostUsers(h, body) =>
         /\ "password" \notin DOMAIN resp'.body
         /\ IF ReqUser(h).role # "admin"
            THEN /\ resp'.status = 403
                 /\ users' = users
                 /\ auditLog' = auditLog
            ELSE ({"username", "password"} \subseteq DOMAIN body
                  /\ ~\E u \in users : u.username = body.username)
                 => /\ resp'.status = 201
                    /\ \E u \in users' \ users : u.username = body.username]_vars

C6_Witness ==
  /\ resp.route = "POST /api/users"
  /\ resp.status = 403
  /\ resp.body = Message("Admin access required")
  /\ \E u \in users : u.role = "operator" /\ u.active

\* C7: a request to a protected route without a token or with an invalid or
\* expired token is answered 401 and changes nothing
C7_Unauthorized ==
  [][\A r \in ProtectedRoutes, h \in Headers :
       AuthRejected(r, h) => resp'.status = 401 /\ UNCHANGED db]_vars

\* C8: login answers a token only when the username exists, the account is
\* active and the password matches the stored hash; an unknown username, an
\* inactive account and a wrong password are answered 401 without a token;
\* the user object of the answer has no password
C8_Login ==
  [][resp'.route = "POST /api/auth/login" =>
     \A body \in LoginBodies :
       Login(body) =>
         LET ok == \E u \in users :
                     /\ u.username = body.username
                     /\ u.active
                     /\ u.password = BcryptHash(body.password)
         IN  /\ ("token" \in DOMAIN resp'.body) <=> ok
             /\ ok => /\ resp'.status = 200
                      /\ "password" \notin DOMAIN resp'.body.user
                      /\ resp'.body.user.username = body.username
             /\ (~ok /\ body.username # "" /\ body.password # "")
                => resp'.status = 401]_vars

C8_Witness ==
  /\ resp.route = "POST /api/auth/login"
  /\ resp.status = 200
  /\ resp.body.user.username = "op"

\* the ids of the rows of table e that a step added, removed or changed
ChangedIds(e) ==
  {r.id : r \in (refs[e] \ refs'[e]) \cup (refs'[e] \ refs[e])}

\* a step that changes a row of a reference table or of users appends one
\* audit entry for that table and row, written by an existing account, and
\* a create, update or delete entry is appended only by such a step
AuditStep ==
  /\ (refs' # refs \/ users' # users) =>
       /\ Len(auditLog') = Len(auditLog) + 1
       /\ LET a == auditLog'[Len(auditLog')]
          IN  /\ \E u \in users : u.id = a.userId
              /\ IF users' # users
                 THEN /\ a.tableName = "users"
                      /\ a.action = "create"
                      /\ {a.recordId} = {u.id : u \in users' \ users}
                 ELSE /\ a.tableName \in Entities
                      /\ \A e \in Entities \ {a.tableName} : refs'[e] = refs[e]
                      /\ ChangedIds(a.tableName) = {a.recordId}
                      /\ a.action =
                           IF a.recordId \notin {r.id : r \in refs[a.tableName]}
                           THEN "create"
                           ELSE IF a.recordId \notin
                                     {r.id : r \in refs'[a.tableName]}
                           THEN "delete" ELSE "update"
  /\ (auditLog' # auditLog /\ auditLog' # <<>>
      /\ auditLog'[Len(auditLog')].action # "export")
     => (refs' # refs \/ users' # users)

\* the actor named by the entry is the principal of the request
AuditActor ==
  (refs' # refs \/ users' # users) =>
    \A h \in ValidHeaders :
      (\/ \E e \in Entities, body \in CreateBodies : PostEntity(e, h, body)
       \/ \E e \in Entities, body \in UpdateBodies :
            \E id \in RequestIds(e) : PutEntity(e, h, id, body)
       \/ \E e \in Entities :
            \E id \in RequestIds(e) : DeleteEntity(e, h, id)
       \/ \E body \in UserBodies : PostUsers(h, body))
      => auditLog'[Len(auditLog')].userId = ReqUser(h).id

C10_AppendOnly ==
  [][/\ Len(auditLog') >= Len(auditLog)
     /\ SubSeq(auditLog', 1, Len(auditLog)) = auditLog]_vars

C10_Witness ==
  /\ Len(auditLog) = 2
  /\ auditLog[1] # auditLog[2]

(***************************************************************************)
(* Errors and composition of the filter compiler, checked under            *)
(* SpecReport.                                                             *)
(***************************************************************************)
\* the request of SpecReport reached the handler and was answered
Answered ==
  resp.route = "GET /api/reports/data" /\ AuthenticateToken(req.header) = 0

\* a date key of the request holds a string that is not a date
MalformedDate(k) ==
  \E f \in ServedQuery.filters : Truthy(f, k) /\ NewDate(f[k]) = {}

\* C11: a request whose dateFrom or dateTo is a malformed date string is
\* answered 400 (ValidationError), and a request without a malformed date
\* is answered with a page
C11_MalformedDate ==
  Answered =>
    IF MalformedDate("dateFrom") \/ MalformedDate("dateTo")
    THEN resp.status = 400
    ELSE resp.status = 200

\* the predicates of the keys that are present and not empty, on one row
SatisfiesPresent(f, p) ==
  /\ Truthy(f, "dateFrom") => \E d \in NewDate(f.dateFrom) : p.prdDtcomp >= d
  /\ Truthy(f, "dateTo") => \E d \in NewDate(f.dateTo) : p.prdDtcomp <= d
  /\ Truthy(f, "prestador") => p.prdPrest = f.prestador
  /\ Truthy(f, "procedimento") => p.prdProc = f.procedimento

\* the rows the request asks for
Expected ==
  {p \in consultaProd : \A f \in ServedQuery.filters : SatisfiesPresent(f, p)}

\* C12: a row is matched iff it satisfies the predicate of every key among
\* dateFrom, dateTo, prestador, procedimento that is present and not empty;
\* the other keys of the filter object have no effect
C12_FourKeysAnd ==
  Served =>
    /\ resp.body.total = Cardinality(Expected)
    /\ \A i \in 1..Len(resp.body.data) :
         resp.body.data[i].id \in {p.id : p \in Expected}
    /\ (ServedPage = 1 /\ ServedLimit > MaxRows)
       => {resp.body.data[i].id : i \in 1..Len(resp.body.data)}
            = {p.id : p \in Expected}

C12_Witness ==
  /\ Served
  /\ \E f \in ServedQuery.filters :
       /\ Truthy(f, "dateFrom") /\ Truthy(f, "prestador")
       /\ "logic" \in DOMAIN f
  /\ resp.body.total = 1
  /\ \E p \in consultaProd : p.prdPrest = "2" /\ p.prdDtcomp < HalfDaysPerDay
  /\ \E p \in consultaProd : p.prdPrest = "2" /\ p.prdDtcomp = HalfDaysPerDay

(***************************************************************************)
(* The report generator of the web client against the report query,        *)
(* checked under SpecReport.                                               *)
(***************************************************************************)
\* one clause of the report generator on one production row
ClauseHolds(c, p) ==
  CASE c.operator = "equals" -> p[c.field] = c.value.items[1]
    [] OTHER -> FALSE

\* the clauses 1..n of a list, joined left to right by their connectors
RECURSIVE ClausesHold(_, _, _)
ClausesHold(l, n, p) ==
  IF n = 0 THEN TRUE
  ELSE IF n = 1 THEN ClauseHolds(l[1], p)
  ELSE IF l[n].logicalOperator = "OR"
  THEN ClausesHold(l, n - 1, p) \/ ClauseHolds(l[n], p)
  ELSE ClausesHold(l, n - 1, p) /\ ClauseHolds(l[n], p)

\* the complete clauses of a list, in order
CompleteClauses(l) ==
  SelectSeq(l, LAMBDA c : c.field # "" /\ c.value.items # <<"">>)

\* C13: the clauses composed in the report generator determine the rows the
\* report returns: the total is the number of rows that satisfy the clauses
C13_ClientClauses ==
  Served =>
    \A l \in ClientFilterLists :
      ServedQuery.filters = ClientFiltersParam(l) =>
        resp.body.total =
          Cardinality({p \in consultaProd :
                         ClausesHold(CompleteClauses(l),
                                     Len(CompleteClauses(l)), p)})

(***************************************************************************)
(* The create routes of the reference tables on their own, with bodies     *)
(* whose text fields are empty strings.                                    *)
(***************************************************************************)
EmptyTextBodies ==
  {[codigo |-> <<>>, descricao |-> <<"d">>],
   [codigo |-> <<"7">>, descricao |-> <<>>]}

NextCreate ==
  \/ \E h \in Headers : AuthRejected("POST /api/:entity", h)
  \/ \E e \in Entities, h \in Headers :
       \E body \in CreateBodies \cup EmptyTextBodies : PostEntity(e, h, body)
  \/ \E e \in Entities, h \in Headers, q \in ListQueries : GetList(e, h, q)

SpecCreate == Init /\ [][NextCreate]_vars

\* a required text field of a create body is missing or the empty string
RequiredMissingOrEmpty(body) ==
  \E k \in RequiredColumns : k \notin DOMAIN body \/ body[k] = <<>>

\* C14: a create request whose required text field is missing or is the
\* empty string is answered 400, inserts no row and writes no audit entry
C14_RequiredNonEmpty ==
  [][resp'.route = "POST /api/:entity" =>
     \A e \in Entities, h \in ValidHeaders :
       \A body \in CreateBodies \cup EmptyTextBodies :
         (RequiredMissingOrEmpty(body) /\ PostEntity(e, h, body)) =>
           /\ resp'.status = 400
           /\ refs' = refs
           /\ auditLog' = auditLog]_vars

(***************************************************************************)
(* Frame of update and integrity of the foreign keys, checked under Spec.  *)
(***************************************************************************)
\* C15: an update answered with the row changed exactly the supplied fields
\* and updatedAt of the row with that id and no other row of any table; an
\* update of an id that no row has is answered 404, changes no row and
\* writes no audit entry
C15_UpdateFrame ==
  [][resp'.route = "PUT /api/:entity/:id" =>
     \A e \in Entities, h \in ValidHeaders, body \in UpdateBodies :
       \A id \in RequestIds(e) :
         PutEntity(e, h, id, body) =>
           IF \A r \in refs[e] : r.id # id
           THEN /\ resp'.status = 404
                /\ refs' = refs
                /\ auditLog' = auditLog
           ELSE /\ resp'.status # 200 => refs' = refs
                /\ resp'.status = 200 =>
                     \E r \in refs[e] :
                       /\ r.id = id
                       /\ resp'.body.id = id
                       /\ refs'[e] = (refs[e] \ {r}) \cup {resp'.body}
                       /\ \A k \in DOMAIN body : resp'.body[k] = body[k]
                       /\ \A k \in DOMAIN r \ (DOMAIN body \cup {"updatedAt"}) :
                            resp'.body[k] = r[k]
                       /\ \A x \in Entities \ {e} : refs'[x] = refs[x]
                       /\ users' = users
                       /\ consultaProd' = consultaProd]_vars

C15_Witness ==
  /\ resp.route = "PUT /api/:entity/:id"
  /\ resp.status = 200
  /\ resp.body.id = "2"
  /\ resp.body.codigo = <<"X">>
  /\ resp.body.descricao = <<"d">>
  /\ resp.body \in refs["prestador"]

\* C16: each foreign key of a production row that is not null names a row
\* of its reference table, also after the deletes of reference rows
C16_ForeignKeys ==
  \A p \in consultaProd, e \in Entities :
    p[FkColumn(e)] # NULL => \E r \in refs[e] : r.id = p[FkColumn(e)]

\* a delete of a referenced row was asked for and refused
C16_Witness ==
  /\ resp.route = "DELETE /api/:entity/:id"
  /\ resp.status = 500
  /\ \E p \in consultaProd : p.prdPrest # NULL /\ p.prdProc # NULL
  /\ Len(auditLog) = 2

(***************************************************************************)
(* The accounts on their own: the storage calls createUser and updateUser  *)
(* (the seed and maintenance scripts call them directly) next to the       *)
(* routes that read or write accounts.                                     *)
(***************************************************************************)
\* the row written by updateUser: a truthy password is hashed first, then
\* .set({...updateData, updatedAt: new Date()})
UpdatedUser(row, userData) ==
  [k \in DOMAIN row |->
     IF k \notin DOMAIN userData THEN row[k]
     ELSE IF k = "password" /\ userData.password # ""
     THEN BcryptHash(userData.password)
     ELSE userData[k]]

UserUpdates ==
  {[password |-> "new"], [password |-> ""], [role |-> "admin"],
   [active |-> FALSE]}

\* DatabaseStorage.createUser
createUser(userData) ==
  /\ UniqueUsernameOk(users, NewUser(userData))
  /\ users' = users \cup {NewUser(userData)}
  /\ clock' = clock + 1
  /\ UNCHANGED <<refs, consultaProd, auditLog, req, client, ui, procs, resp>>

\* DatabaseStorage.updateUser
updateUser(id, userData) ==
  /\ \E u \in getUser(id) :
       /\ UniqueUsernameOk(users, UpdatedUser(u, userData))
       /\ users' = (users \ {u}) \cup {UpdatedUser(u, userData)}
  /\ UNCHANGED <<refs, consultaProd, auditLog, clock, req, client, ui, procs, resp>>

NextUsers ==
  \/ \E userData \in {b \in UserBodies : InsertUserSchemaOk(b)} :
       createUser(userData)
  \/ \E u \in users, userData \in UserUpdates : updateUser(u.id, userData)
  \/ \E h \in Headers, body \in UserBodies : PostUsers(h, body)
  \/ \E body \in LoginBodies : Login(body)
  \/ \E h \in Headers : GetMe(h)

SpecUsers == Init /\ [][NextUsers]_vars

\* the clear-text passwords submitted in the model and their hashes
ClearPasswords ==
  {"admin123", ""}
  \cup {b.password : b \in {x \in UserBodies : "password" \in DOMAIN x}}
  \cup {b.password : b \in LoginBodies}
  \cup {b.password : b \in {x \in UserUpdates : "password" \in DOMAIN x}}

HashValues == {BcryptHash(p) : p \in ClearPasswords}

\* C17: the stored password of every account is a hash and never a
\* submitted clear text, no response body carries a password, and an audit
\* entry carries at most the placeholder in place of a password
C17_PasswordsHashed ==
  /\ \A u \in users :
       u.password \in HashValues /\ u.password \notin ClearPasswords
  /\ "password" \notin DOMAIN resp.body
  /\ "user" \in DOMAIN resp.body => "password" \notin DOMAIN resp.body.user
  /\ \A i \in 1..Len(auditLog) :
       \A v \in auditLog[i].oldValues \cup auditLog[i].newValues :
         "password" \in DOMAIN v.json => v.json.password = "[HIDDEN]"

(***************************************************************************)
(* Requests served while the database is unreachable: every storage call   *)
(* of the handler throws and the catch clause of the route answers.        *)
(***************************************************************************)
\* the routes whose handler calls the storage layer
StorageRoutes ==
  (ProtectedRoutes \ {"GET /api/users"}) \cup {"POST /api/auth/login"}

\* the status the catch clause of a route answers with
CatchStatus(route) ==
  IF route \in {"POST /api/auth/login", "POST /api/:entity",
                "PUT /api/:entity/:id", "POST /api/users"}
  THEN 400 ELSE 500

CatchMessage(route) ==
  IF CatchStatus(route) = 400 THEN "Invalid request data"
  ELSE "Internal server error"

\* a request to a storage route while the database is unreachable: the
\* middleware needs no database, the first storage call throws
Unreachable(route, h) ==
  /\ route \in ProtectedRoutes => AuthenticateToken(h) = 0
  /\ route = "POST /api/users" => RequireAdmin(ReqUser(h))
  /\ resp' = Response(route, CatchStatus(route),
                      Message(CatchMessage(route)))
  /\ UNCHANGED <<db, req, client, ui, procs>>

NextOutage ==
  \/ \E route \in StorageRoutes, h \in Headers : Unreachable(route, h)
  \/ \E body \in LoginBodies : Login(body)
  \/ \E e \in Entities, h \in Headers, body \in CreateBodies :
       PostEntity(e, h, body)
  \/ \E e \in Entities, h \in Headers, body \in UpdateBodies :
       \E id \in RequestIds(e) : PutEntity(e, h, id, body)

SpecOutage == Init /\ [][NextOutage]_vars

\* C18: a request that meets an unreachable database is answered 500, a
\* create whose body fails validation 400, an update of a missing id 404
C18_ErrorMapping ==
  [][/\ \A route \in StorageRoutes, h \in Headers :
          Unreachable(route, h) => resp'.status = 500
     /\ \A e \in Entities, h \in ValidHeaders, body \in CreateBodies :
          (~InsertSchemaOk(body) /\ PostEntity(e, h, body))
            => resp'.status = 400
     /\ \A e \in Entities, h \in ValidHeaders, body \in UpdateBodies :
          \A id \in RequestIds(e) :
            (getRow(e, id) = {} /\ PutEntity(e, h, id, body))
              => resp'.status = 404]_vars

(***************************************************************************)
(* The joins of the report query, checked under SpecReport.                *)
(***************************************************************************)
\* the key of the nested object of a dimension in a result row
NestedKey(e) == IF e = "s_rub" THEN "sRub" ELSE e

\* the nested object a production row must carry for a dimension: null
\* when the key is null or names no row, else the code and description of
\* the row it names
NestedObject(p, e) ==
  {[id |-> r.id, codigo |-> r.codigo, descricao |-> r.descricao] :
     r \in {x \in refs[e] : p[FkColumn(e)] # NULL /\ x.id = p[FkColumn(e)]}}

\* C19: the joins neither drop nor duplicate a production row: the
\* unpaginated result holds every matching row exactly once, and a row
\* carries a null nested object for each dimension whose key is null or
\* names no row
C19_LeftJoin ==
  Served =>
    /\ \A i \in 1..Len(resp.body.data) :
         \E p \in Expected :
           /\ p.id = resp.body.data[i].id
           /\ \A e \in Entities :
                resp.body.data[i][NestedKey(e)] = NestedObject(p, e)
    /\ (ServedPage = 1 /\ ServedLimit > MaxRows) =>
         /\ Len(resp.body.data) = Cardinality(Expected)
         /\ \A p \in Expected :
              Cardinality({i \in 1..Len(resp.body.data) :
                             resp.body.data[i].id = p.id}) = 1

C19_Witness ==
  /\ Served
  /\ Len(resp.body.data) = 2
  /\ \E i, j \in 1..2 :
       /\ resp.body.data[i].prestador = {}
       /\ resp.body.data[i].procedimento # {}
       /\ resp.body.data[j].prestador # {}
       /\ resp.body.data[j].cbo = {}

(***************************************************************************)
(* The web client: useAuth, Router, LoginForm and the list query of a      *)
(* page, talking to the routes above.  A request and its response are two  *)
(* steps: the route answers into resp, then the client takes the answer.   *)
(***************************************************************************)
\* authUtils.getAuthHeaders: the header built from the stored token
getAuthHeaders(token) ==
  IF token = {} THEN NoHeader
  ELSE [scheme |-> "Bearer", credentials |-> token]

\* useAuth: isLoading && !!token, for a query without data that is in flight
IsLoading == client.fetching /\ client.user = {} /\ client.token # {}

\* useAuth: isAuthenticated = !!user && !!token
IsAuthenticated == client.user # {} /\ client.token # {}

\* Router: the spinner, the login form or the protected pages
RouterView ==
  IF IsLoading THEN "loading"
  ELSE IF ~IsAuthenticated THEN "login"
  ELSE "protected"

\* the /api/auth/me query of useAuth is sent with the stored token
MeRequest ==
  /\ client.fetching
  /\ resp = NoResponse
  /\ \/ GetMe(getAuthHeaders(client.token))
     \/ AuthRejected("GET /api/auth/me", getAuthHeaders(client.token))

\* the answer of the query: the user on 200, else an error and no new data
MeResponse ==
  /\ client.fetching
  /\ resp.route = "GET /api/auth/me"
  /\ client' = [client EXCEPT
                  !.fetching = FALSE,
                  !.user = IF resp.status = 200 THEN {resp.body} ELSE @]
  /\ resp' = NoResponse
  /\ UNCHANGED <<db, req, ui, procs>>

\* LoginForm.handleLogin sends the form
LoginRequest(body) ==
  /\ RouterView = "login"
  /\ resp = NoResponse
  /\ Login(body)

\* LoginForm.handleLogin after the answer: the token and the user are stored
\* and the page is reloaded; a refusal shows a toast
LoginResponse ==
  /\ resp.route = "POST /api/auth/login"
  /\ client' = IF resp.status = 200
               THEN Reload({resp.body.token}, {resp.body.user})
               ELSE client
  /\ resp' = NoResponse
  /\ UNCHANGED <<db, req, ui, procs>>

\* useAuth.logout: both items are removed and the page is reloaded
logout ==
  /\ RouterView = "protected"
  /\ client' = Reload({}, {})
  /\ resp' = NoResponse
  /\ UNCHANGED <<db, req, ui, procs>>

\* the list query of a page (SRubPage, PrestadorPage, ...) is sent
PageRequest(e, q) ==
  /\ RouterView = "protected"
  /\ resp = NoResponse
  /\ \/ GetList(e, getAuthHeaders(client.token), q)
     \/ AuthRejected("GET /api/:entity", getAuthHeaders(client.token))

\* queryFn of the page: if (!response.ok) throw new Error(status)
PageResponse ==
  /\ resp.route = "GET /api/:entity"
  /\ client' = [client EXCEPT
                  !.pageError = IF resp.status = 200 THEN {}
                                ELSE {resp.status}]
  /\ resp' = NoResponse
  /\ UNCHANGED <<db, req, ui, procs>>

\* the 24 hours of the stored token end (expiresIn: '24h')
TokenExpires ==
  /\ \E t \in client.token :
       /\ ~t.expired
       /\ client' = [client EXCEPT !.token = {[t EXCEPT !.expired = TRUE]}]
  /\ UNCHANGED <<db, req, ui, procs, resp>>

\* the user reloads the page: the query cache starts empty, what is in
\* localStorage stays
ReloadPage ==
  /\ client' = Reload(client.token, client.storedUser)
  /\ resp' = NoResponse
  /\ UNCHANGED <<db, req, ui, procs>>

\* the browser opens the page with what an earlier visit left in storage
InitClient ==
  /\ users = {AdminUser}
  /\ refs = SeedRefs
  /\ consultaProd \in SeedProd
  /\ auditLog = <<>>
  /\ clock = SeedClock
  /\ req = NoRequest
  /\ client \in {Reload(token, {}) :
                   token \in {{}} \cup {{t} : t \in ExpiredTokens
                                                 \cup ForgedTokens}}
  /\ ui = NoUi
  /\ procs = NoProcs
  /\ resp = NoResponse

NextClient ==
  \/ MeRequest
  \/ MeResponse
  \/ \E body \in LoginBodies : LoginRequest(body)
  \/ LoginResponse
  \/ logout
  \/ \E e \in Entities, q \in ListQueries : PageRequest(e, q)
  \/ PageResponse
  \/ TokenExpires
  \/ ReloadPage
  \/ \E userData \in {b \in UserBodies : InsertUserSchemaOk(b)} :
       createUser(userData)

SpecClient == InitClient /\ [][NextClient]_vars

\* C20: the protected pages are shown only with a stored token and a user
\* returned by /api/auth/me; without a stored token, and once the server
\* has rejected the stored token, the login form is shown; the stored user
\* is never kept without the token
C20_AutoLogout ==
  /\ RouterView = "protected" =>
       /\ client.token # {}
       /\ \E u \in users : client.user = {PublicUser(u)}
  /\ client.token = {} => RouterView = "login" /\ client.storedUser = {}
  /\ client.pageError \cap {401, 403} # {} => RouterView = "login"

(***************************************************************************)
(* The report generator (ReportGenerator) inside the reports page          *)
(* (RelatoriosPage): the clause list is the state of the generator, the    *)
(* filter object is the state of the page.                                 *)
(***************************************************************************)
\* { ...a, ...b }
Spread(a, b) ==
  [k \in DOMAIN a \cup DOMAIN b |-> IF k \in DOMAIN b THEN b[k] ELSE a[k]]

\* the field keys offered by the field select (availableFields)
AvailableFields == {"prdPrest"}

\* the operators offered by the operator select (filterOperators)
FilterOperators == {"equals", "between"}

\* the texts typed into a value input
Texts == {"", "2"}

\* ReportGenerator.addFilter: an empty clause is appended, with the AND
\* connector when the list is not empty; the page is not told
addFilter ==
  /\ \E filters \in ui.generator :
       /\ Len(filters) < MaxClauses
       /\ LET newFilter ==
                IF Len(filters) > 0
                THEN [field |-> "", operator |-> "equals",
                      value |-> StringValue(""), logicalOperator |-> "AND"]
                ELSE [field |-> "", operator |-> "equals",
                      value |-> StringValue("")]
          IN  ui' = [ui EXCEPT !.generator = {Append(filters, newFilter)}]
  /\ UNCHANGED <<db, req, client, procs, resp>>

\* ReportGenerator.updateFilter: the clause at index (from 0) takes the
\* updates and the page receives the new filter object
updateFilter(index, updates) ==
  /\ \E filters \in ui.generator :
       /\ index + 1 \in DOMAIN filters
       /\ LET newFilters ==
                [filters EXCEPT ![index + 1] = Spread(@, updates)]
          IN  ui' = [ui EXCEPT !.generator = {newFilters},
                               !.filters = buildFilterObject(newFilters)]
  /\ UNCHANGED <<db, req, client, procs, resp>>

\* ReportGenerator.removeFilter: the clause at index (from 0) is taken out,
\* the clauses after it move up, the page receives the new filter object
removeFilter(index) ==
  /\ \E filters \in ui.generator :
       /\ index + 1 \in DOMAIN filters
       /\ LET newFilters ==
                [i \in 1..(Len(filters) - 1) |->
                   IF i < index + 1 THEN filters[i] ELSE filters[i + 1]]
          IN  ui' = [ui EXCEPT !.generator = {newFilters},
                               !.filters = buildFilterObject(newFilters)]
  /\ UNCHANGED <<db, req, client, procs, resp>>

\* the updates the controls of the clause row at index can send: the
\* connector select (rows after the first), the field select, the operator
\* select, and the value input or the two inputs of 'between' (an input
\* reports a text that differs from the one it shows)
FilterUpdates(filters, index) ==
  LET filter == filters[index + 1]
      currentValue == IF filter.value.array THEN filter.value.items
                      ELSE <<"", "">>
  IN  (IF index > 0 THEN {[logicalOperator |-> c] : c \in {"AND", "OR"}}
       ELSE {})
      \cup {[field |-> f] : f \in AvailableFields}
      \cup {[operator |-> o] : o \in FilterOperators}
      \cup (IF filter.operator = "between"
            THEN {[value |-> ArrayValue(t, currentValue[2])] :
                    t \in Texts \ {currentValue[1]}}
                 \cup {[value |-> ArrayValue(currentValue[1], t)] :
                         t \in Texts \ {currentValue[2]}}
            ELSE {[value |-> StringValue(t)] :
                    t \in IF filter.value.array THEN Texts
                          ELSE Texts \ {filter.value.items[1]}})

\* RelatoriosPage: the toggle button mounts the generator with an empty
\* clause list or unmounts it; the filters of the page stay
ToggleReportGenerator ==
  /\ ui' = [ui EXCEPT !.showReportGenerator = ~ui.showReportGenerator,
                      !.generator = IF ui.showReportGenerator THEN {}
                                    ELSE {<<>>}]
  /\ UNCHANGED <<db, req, client, procs, resp>>

\* the reports page with the generator opened
InitGenerator ==
  /\ users = {AdminUser}
  /\ refs = SeedRefs
  /\ consultaProd = {}
  /\ auditLog = <<>>
  /\ clock = SeedClock
  /\ req = NoRequest
  /\ client = NoClient
  /\ ui = [NoUi EXCEPT !.showReportGenerator = TRUE, !.generator = {<<>>}]
  /\ procs = NoProcs
  /\ resp = NoResponse

NextGenerator ==
  \/ addFilter
  \/ \E filters \in ui.generator, index \in 0..(MaxClauses - 1) :
       /\ index + 1 \in DOMAIN filters
       /\ \E updates \in FilterUpdates(filters, index) :
            updateFilter(index, updates)
  \/ \E index \in 0..(MaxClauses - 1) : removeFilter(index)

SpecGenerator == InitGenerator /\ [][NextGenerator]_vars

\* a value with some text in it: the text of the single input, or one of the
\* two bounds of 'between'
NonEmptyValue(v) == \E k \in DOMAIN v.items : v.items[k] # ""

\* C21: the filter object built from the clause list has exactly the keys
\* filter_<i> of the clauses i with a non-empty field and a non-empty value
\* (a 'between' clause with both bounds empty is dropped), and each key
\* holds the field, operator, value and connector of its clause
C21_BuildFilterObject ==
  \A filters \in ui.generator :
    /\ DOMAIN ui.filters =
         {"filter_" \o ToString(i - 1) :
            i \in {j \in 1..Len(filters) :
                     /\ filters[j].field # ""
                     /\ NonEmptyValue(filters[j].value)}}
    /\ \A i \in 1..Len(filters) :
         "filter_" \o ToString(i - 1) \in DOMAIN ui.filters =>
           ui.filters["filter_" \o ToString(i - 1)] = filters[i]

\* C30: the first clause of the list carries no connector, every later
\* clause carries AND or OR
C30_Connectors ==
  \A filters \in ui.generator :
    \A i \in 1..Len(filters) :
      IF i = 1 THEN "logicalOperator" \notin DOMAIN filters[i]
      ELSE /\ "logicalOperator" \in DOMAIN filters[i]
           /\ filters[i].logicalOperator \in {"AND", "OR"}

(***************************************************************************)
(* The reports page with the toggle of the generator: the generator is     *)
(* mounted and unmounted while the page keeps its filters.                 *)
(***************************************************************************)
NextRelatorios ==
  \/ ToggleReportGenerator
  \/ addFilter
  \/ \E filters \in ui.generator, index \in 0..(MaxClauses - 1) :
       /\ index + 1 \in DOMAIN filters
       /\ \E updates \in FilterUpdates(filters, index) :
            /\ DOMAIN updates \subseteq {"field", "value"}
            /\ updateFilter(index, updates)
  \/ \E index \in 0..(MaxClauses - 1) : removeFilter(index)

SpecRelatorios == Init /\ [][NextRelatorios]_vars

\* C24: while the generator is shown, the filter object of the page is the
\* one built from the clause list the generator shows
C24_PageFilters ==
  \A filters \in ui.generator :
    /\ DOMAIN ui.filters = DOMAIN buildFilterObject(filters)
    /\ \A k \in DOMAIN ui.filters :
         ui.filters[k] = buildFilterObject(filters)[k]

(***************************************************************************)
(* Order of the report rows, checked under SpecReport.                     *)
(***************************************************************************)
\* C22: the rows of a report page are in descending order of competence
\* date, and the row at position i of page p has the date that stands at
\* position (p-1)*limit+i when all matching rows are put in descending
\* order, so that every row of page p has a date not before any row of page
\* p+1 of the same filter and limit
C22_DescendingDate ==
  Served =>
    LET match  == Matching(ServedQuery.filters)
        offset == (ServedPage - 1) * ServedLimit
        data   == resp.body.data
    IN  /\ \A i, j \in 1..Len(data) :
             i < j => data[i].prdDtcomp >= data[j].prdDtcomp
        /\ \A i \in 1..Len(data) :
             /\ Cardinality({p \in match : p.prdDtcomp > data[i].prdDtcomp})
                  <= offset + i - 1
             /\ Cardinality({p \in match : p.prdDtcomp >= data[i].prdDtcomp})
                  >= offset + i

C22_Witness ==
  /\ Served
  /\ Len(resp.body.data) = 2
  /\ resp.body.data[1].prdDtcomp > resp.body.data[2].prdDtcomp

(***************************************************************************)
(* The list routes and the report route on their own: a table of up to     *)
(* MaxRows rows and one request with its page, limit and search            *)
(* parameters.                                                             *)
(***************************************************************************)
ListCodes == <<<<"0", "0", "1">>, <<"X">>, <<"1", "0">>>>

ListTexts == <<<<"d">>, <<"0">>>>

\* the cbo row with the i-th id, the c-th code and the t-th description
ListRow(i, c, t) ==
  [id |-> ToString(SeedClock - 1 + i), codigo |-> ListCodes[c],
   descricao |-> ListTexts[t], createdAt |-> SeedClock - 1 + i,
   updatedAt |-> SeedClock - 1 + i]

\* every cbo table of at most MaxRows rows with distinct codes
ListTables ==
  UNION {{{ListRow(i, c[i], t[i]) : i \in 1..n} :
            c \in {g \in [1..n -> 1..Len(ListCodes)] :
                     \A i, j \in 1..n : i < j => g[i] < g[j]},
            t \in [1..n -> 1..Len(ListTexts)]} :
         n \in 0..Min(MaxRows, Len(ListCodes))}

\* the page and limit parameters: absent, not a number, zero, negative,
\* positive
PageParams == {<<>>, <<"x">>, <<"0">>, <<"-", "1">>, <<"2">>}

LimitParams == {<<>>, <<"x">>, <<"0">>, <<"-", "1">>, <<"1">>}

SearchParams == {<<>>, <<"0">>, <<"1", "0">>, <<"d">>, <<"_">>}

ListRequests ==
  {[header |-> h, entity |-> e,
    query |-> {[page |-> page, limit |-> limit, search |-> search]}] :
     h \in Headers, e \in {"cbo", "prestador", "consulta_prod"},
     page \in PageParams, limit \in LimitParams, search \in SearchParams}

InitList ==
  /\ users = {AdminUser}
  /\ \E table \in ListTables : refs = [SeedRefs EXCEPT !["cbo"] = table]
  /\ consultaProd \in SeedProd
  /\ auditLog = <<>>
  /\ clock = SeedClock + Cardinality(refs["cbo"])
  /\ req \in ListRequests
  /\ client = NoClient
  /\ ui = NoUi
  /\ procs = NoProcs
  /\ resp = NoResponse

NextList ==
  \/ /\ req.entity # "consulta_prod"
     /\ AuthRejected("GET /api/:entity", req.header)
  \/ /\ req.entity = "consulta_prod"
     /\ AuthRejected("GET /api/reports/data", req.header)
  \/ /\ req.entity # "consulta_prod"
     /\ \E q \in req.query : GetList(req.entity, req.header, q)
  \/ /\ req.entity = "consulta_prod"
     /\ \E q \in req.query :
          GetReportsData(req.header,
                         [page |-> q.page, limit |-> q.limit, filters |-> {}])

SpecList == InitList /\ [][NextList]_vars

\* the search text stands in the text, character for character
Occurs(text, search) ==
  \E i \in 0..(Len(text) - Len(search)) :
    SubSeq(text, i + 1, i + Len(search)) = search

\* C23: a list answered for an empty search counts every row of the table;
\* for a search text it counts, and returns only, the rows in which the text
\* occurs as a substring of the code or of the description
C23_ListSearch ==
  (resp.route = "GET /api/:entity" /\ resp.status = 200) =>
    \A q \in req.query :
      LET expected ==
            IF q.search = <<>> THEN refs[req.entity]
            ELSE {r \in refs[req.entity] :
                    \/ Occurs(r.codigo, q.search)
                    \/ Occurs(r.descricao, q.search)}
      IN  /\ resp.body.total = Cardinality(expected)
          /\ \A i \in 1..Len(resp.body.data) : resp.body.data[i] \in expected

\* C28: whatever the page and limit parameters are (absent, not a number,
\* zero, negative, positive), the list and report handlers hand storage a
\* page and a limit of at least 1, so that the offset is not negative and
\* the query is not refused; an absent, non-numeric or zero parameter becomes
\* page 1 and limit 10 (50 for the report)
C28_PageLimit ==
  (resp.route \in {"GET /api/:entity", "GET /api/reports/data"}
     /\ resp.status \notin {401, 403}) =>
    \A q \in req.query :
      LET d    == IF req.entity = "consulta_prod" THEN 50 ELSE 10
          args == StorageArgs(q, d)
      IN  /\ args.page >= 1
          /\ args.limit >= 1
          /\ (args.page - 1) * args.limit >= 0
          /\ resp.status = 200
          /\ q.page \in {<<>>, <<"x">>, <<"0">>} => args.page = 1
          /\ q.limit \in {<<>>, <<"x">>, <<"0">>} => args.limit = d

(***************************************************************************)
(* The pagination bar of DataTable: the page is the state of the page      *)
(* component that renders the table, total and limit are the pagination    *)
(* prop.                                                                   *)
(***************************************************************************)
\* Math.ceil(pagination.total / pagination.limit)
PageCount == (ui.total + ui.limit - 1) \div ui.limit

\* disabled={pagination.page <= 1}
PreviousDisabled == ui.page <= 1

\* disabled={pagination.page >= Math.ceil(pagination.total / pagination.limit)}
NextDisabled_Strict == ui.page > PageCount

NextDisabled == ui.page >= PageCount

\* Array.from({ length: Math.min(5, Math.ceil(total / limit)) }, (_, i) =>
\* i + 1): the numbered buttons
PageButtons == 1..Min(5, PageCount)

\* pagination.onPageChange = setPage
onPageChange(page) ==
  /\ ui' = [ui EXCEPT !.page = page]
  /\ UNCHANGED <<db, req, client, procs, resp>>

ClickPrevious == ~PreviousDisabled /\ onPageChange(ui.page - 1)

ClickPage(pageNum) == pageNum \in PageButtons /\ onPageChange(pageNum)

ClickNext == ~NextDisabled /\ onPageChange(ui.page + 1)

\* the table is shown on page 1 with the total of the answer and the limit
\* of the page component (50 on the reports page, 10 on the others)
InitDataTable ==
  /\ users = {AdminUser}
  /\ refs = SeedRefs
  /\ consultaProd = {}
  /\ auditLog = <<>>
  /\ clock = SeedClock
  /\ req = NoRequest
  /\ client = NoClient
  /\ \E total \in 0..MaxTotal, limit \in {10, 50} :
       ui = [NoUi EXCEPT !.total = total, !.limit = limit]
  /\ procs = NoProcs
  /\ resp = NoResponse

NextDataTable ==
  \/ ClickPrevious
  \/ \E pageNum \in 1..5 : ClickPage(pageNum)
  \/ ClickNext

SpecDataTable == InitDataTable /\ [][NextDataTable]_vars

\* the least number of pages of limit rows that hold total rows
CeilDiv(total, limit) ==
  CHOOSE n \in 0..total : n * limit >= total /\ (n - 1) * limit < total

\* C29: with a fixed total and limit, clicks on the enabled controls keep
\* the page between 1 and max(1, ceil(total/limit)); Previous is disabled
\* exactly at page <= 1, Next exactly at page >= ceil(total/limit), and
\* there are at most min(5, ceil(total/limit)) numbered buttons
C29_Pagination ==
  LET pages == CeilDiv(ui.total, ui.limit)
  IN  /\ 1 <= ui.page
      /\ ui.page <= Max(1, pages)
      /\ PreviousDisabled <=> ui.page <= 1
      /\ NextDisabled <=> ui.page >= pages
      /\ Cardinality(PageButtons) <= Min(5, pages)

C29_Witness ==
  /\ ui.page = 6
  /\ CeilDiv(ui.total, ui.limit) = 6
  /\ NextDisabled
  /\ ~PreviousDisabled

(***************************************************************************)
(* Two requests in flight.  The PUT and DELETE handlers of the reference   *)
(* tables await three storage calls in turn (the old row, the write, the   *)
(* audit entry); a step is one call, and the steps of the two handlers     *)
(* interleave.  procs[p] holds the locals of the handler serving p.        *)
(***************************************************************************)
Procs == {1, 2}

Idle == [pc |-> "idle"]

HandlerRoute(method) ==
  IF method = "PUT" THEN "PUT /api/:entity/:id"
  ELSE "DELETE /api/:entity/:id"

\* the handler of p answers with status and returns
Answer(p, status, body) ==
  /\ procs' = [procs EXCEPT ![p].pc = "done", ![p].status = status]
  /\ resp' = Response(HandlerRoute(procs[p].method), status, body)

\* const oldCbo = await storage.getCBO(req.params.id), after authenticateToken
\* and, for PUT, the parse of the body
ReadOld(p, method, e, h, id, body) ==
  /\ procs[p].pc = "idle"
  /\ AuthenticateToken(h) = 0
  /\ procs' = [procs EXCEPT ![p] =
                 [pc |-> "write", method |-> method, entity |-> e,
                  header |-> h, id |-> id, body |-> body,
                  old |-> getRow(e, id), new |-> {}, status |-> 0]]
  /\ UNCHANGED <<db, req, client, ui, resp>>

\* const cbo = await storage.updateCBO(req.params.id, cboData);
\* if (!cbo) return 404
UpdateStep(p) ==
  /\ procs[p].pc = "write"
  /\ procs[p].method = "PUT"
  /\ LET e       == procs[p].entity
         current == getRow(e, procs[p].id)
     IN  \/ /\ current = {}
            /\ Answer(p, 404, Message("not found"))
            /\ UNCHANGED <<db, req, client, ui>>
         \/ /\ \E r \in current :
                 ~UniqueCodeOk(refs[e], UpdatedRow(r, procs[p].body))
            /\ Answer(p, 400, Message("Invalid request data"))
            /\ UNCHANGED <<db, req, client, ui>>
         \/ \E r \in current :
              /\ UniqueCodeOk(refs[e], UpdatedRow(r, procs[p].body))
              /\ refs' = [refs EXCEPT ![e] =
                            (@ \ {r}) \cup {UpdatedRow(r, procs[p].body)}]
              /\ clock' = clock + 1
              /\ procs' = [procs EXCEPT
                             ![p].pc = "audit",
                             ![p].new = {UpdatedRow(r, procs[p].body)}]
              /\ UNCHANGED <<users, consultaProd, auditLog, req, client, ui,
                             resp>>

\* const success = await storage.deleteCBO(req.params.id);
\* if (!success) return 404
DeleteStep(p) ==
  /\ procs[p].pc = "write"
  /\ procs[p].method = "DELETE"
  /\ LET e       == procs[p].entity
         current == getRow(e, procs[p].id)
     IN  \/ /\ StillReferenced(e, procs[p].id)
            /\ Answer(p, 500, Message("Internal server error"))
            /\ UNCHANGED <<db, req, client, ui>>
         \/ /\ ~StillReferenced(e, procs[p].id)
            /\ current = {}
            /\ Answer(p, 404, Message("not found"))
            /\ UNCHANGED <<db, req, client, ui>>
         \/ /\ ~StillReferenced(e, procs[p].id)
            /\ current # {}
            /\ refs' = [refs EXCEPT ![e] = @ \ current]
            /\ procs' = [procs EXCEPT ![p].pc = "audit"]
            /\ UNCHANGED <<users, consultaProd, auditLog, clock, req, client,
                           ui, resp>>

\* await storage.createAuditLog({... oldValues: JSON.stringify(oldCbo),
\* newValues: JSON.stringify(cbo)}), then the answer
WriteAudit(p) ==
  /\ procs[p].pc = "audit"
  /\ auditLog' = createAuditLog(auditLog,
       AuditEntry(ReqUser(procs[p].header).id,
                  IF procs[p].method = "PUT" THEN "update" ELSE "delete",
                  procs[p].entity, procs[p].id, procs[p].old, procs[p].new))
  /\ \/ /\ procs[p].method = "PUT"
        /\ \E cbo \in procs[p].new : Answer(p, 200, cbo)
     \/ /\ procs[p].method = "DELETE"
        /\ Answer(p, 204, Message(""))
  /\ UNCHANGED <<users, refs, consultaProd, clock, req, client, ui>>

InitConcurrent ==
  /\ users = {AdminUser}
  /\ refs = SeedRefs
  /\ consultaProd \in SeedProd
  /\ auditLog = <<>>
  /\ clock = SeedClock
  /\ req = NoRequest
  /\ client = NoClient
  /\ ui = NoUi
  /\ procs = [p \in Procs |-> Idle]
  /\ resp = NoResponse

NextConcurrent ==
  \/ \E p \in Procs, e \in Entities, h \in Headers, body \in UpdateBodies :
       \E id \in RequestIds(e) : ReadOld(p, "PUT", e, h, id, body)
  \/ \E p \in Procs, e \in Entities, h \in Headers :
       \E id \in RequestIds(e) : ReadOld(p, "DELETE", e, h, id, <<>>)
  \/ \E p \in Procs : UpdateStep(p)
  \/ \E p \in Procs : DeleteStep(p)
  \/ \E p \in Procs : WriteAudit(p)

SpecConcurrent == InitConcurrent /\ [][NextConcurrent]_vars

\* the 'delete' audit entries of a row
DeleteEntries(e, id) ==
  {i \in 1..Len(auditLog) :
     /\ auditLog[i].action = "delete"
     /\ auditLog[i].tableName = e
     /\ auditLog[i].recordId = id}

\* C25: when two concurrent DELETE requests for the same existing row of a
\* reference table have both been answered, one has reported success, the
\* other 'not found', and the audit log has one 'delete' entry for the row
C25_ConcurrentDelete ==
  \A p, q \in Procs :
    (/\ p # q
     /\ procs[p].pc = "done" /\ procs[q].pc = "done"
     /\ procs[p].method = "DELETE" /\ procs[q].method = "DELETE"
     /\ procs[p].entity = procs[q].entity
     /\ procs[p].id = procs[q].id
     /\ \E r \in SeedRefs[procs[p].entity] : r.id = procs[p].id) =>
      /\ {procs[p].status, procs[q].status} = {204, 404}
      /\ Cardinality(DeleteEntries(procs[p].entity, procs[p].id)) = 1

\* C26: the update of a row replaces the row the handler has read as the old
\* one, and the 'update' entry the handler then writes carries that old row
\* and the row as the update left it
C26_UpdateAudit ==
  [][\A p \in Procs :
       (procs[p].pc # "idle" /\ procs[p].method = "PUT") =>
         /\ (procs[p].pc = "write" /\ procs'[p].pc = "audit") =>
              /\ procs[p].old = getRow(procs[p].entity, procs[p].id)
              /\ procs'[p].new =
                   {r \in refs'[procs[p].entity] : r.id = procs[p].id}
         /\ (procs[p].pc = "audit" /\ procs'[p].pc = "done") =>
              /\ auditLog'[Len(auditLog')].action = "update"
              /\ auditLog'[Len(auditLog')].oldValues =
                   JsonStringify(procs[p].old)
              /\ auditLog'[Len(auditLog')].newValues =
                   JsonStringify(procs[p].new)]_vars

(***************************************************************************)
(* The mutating routes of the reference tables when the audit write fails: *)
(* the entity write and the audit write are two statements with no         *)
(* transaction around them, and the second can throw after the first has   *)
(* been applied.                                                           *)
(***************************************************************************)
\* a POST, PUT or DELETE whose storage write succeeds and whose
\* createAuditLog call throws: the catch clause of the route answers
AuditWriteFails(route, e, h, id, body) ==
  /\ AuthenticateToken(h) = 0
  /\ clock < SeedClock + MaxAudit
  /\ \/ /\ route = "POST /api/:entity"
        /\ InsertSchemaOk(body)
        /\ UniqueCodeOk(refs[e], NewRow(body))
        /\ refs' = [refs EXCEPT ![e] = @ \cup {NewRow(body)}]
        /\ clock' = clock + 1
     \/ /\ route = "PUT /api/:entity/:id"
        /\ \E r \in getRow(e, id) :
             /\ UniqueCodeOk(refs[e], UpdatedRow(r, body))
             /\ refs' = [refs EXCEPT
                           ![e] = (@ \ {r}) \cup {UpdatedRow(r, body)}]
        /\ clock' = clock + 1
     \/ /\ route = "DELETE /api/:entity/:id"
        /\ getRow(e, id) # {}
        /\ ~StillReferenced(e, id)
        /\ refs' = [refs EXCEPT ![e] = @ \ getRow(e, id)]
        /\ clock' = clock
  /\ resp' = Response(route, CatchStatus(route), Message(CatchMessage(route)))
  /\ UNCHANGED <<users, consultaProd, auditLog, req, client, ui, procs>>

NextAuditFailure ==
  \/ \E e \in {"prestador"}, h \in Headers, body \in CreateBodies :
       \/ PostEntity(e, h, body)
       \/ AuditWriteFails("POST /api/:entity", e, h, "", body)
  \/ \E e \in {"prestador"}, h \in Headers, body \in UpdateBodies :
       \E id \in RequestIds(e) :
         \/ PutEntity(e, h, id, body)
         \/ AuditWriteFails("PUT /api/:entity/:id", e, h, id, body)
  \/ \E e \in {"prestador"}, h \in Headers :
       \E id \in RequestIds(e) :
         \/ DeleteEntity(e, h, id)
         \/ AuditWriteFails("DELETE /api/:entity/:id", e, h, id, <<>>)

SpecAuditFailure == Init /\ [][NextAuditFailure]_vars

\* C27: a POST, PUT or DELETE on a reference table that is answered with
\* 400, 404 or 500 leaves the reference tables as they were, also when it is
\* the audit write that failed
C27_ErrorLeavesTable ==
  [][(/\ resp'.route \in {"POST /api/:entity", "PUT /api/:entity/:id",
                          "DELETE /api/:entity/:id"}
      /\ resp'.status \in {400, 404, 500}) => refs' = refs]_vars

====
